---- MODULE Spec2Model ----
(***************************************************************************)
(* A model of backend/app.py of the Jira ticket rewriter: the response     *)
(* parser (_parse_ai_response), the fallback generator                     *)
(* (_generate_better_fallback_response) and the two batch handlers         *)
(* (rewrite_tickets, update_tickets).                                      *)
(*                                                                         *)
(* Text is modelled as TLA+ strings, read character by character with Len, *)
(* SubSeq and \o, so that split, strip, replace, the substring test and    *)
(* the two regular expressions are computed the way Python computes them.  *)
(***************************************************************************)
EXTENDS Integers, Sequences, FiniteSets, TLC

VARIABLES
    \* ---- the request being served by one of the two handlers
    pc,                 \* "idle" | "rewriting" | "updating"
    tickets,            \* rewrite_tickets: the request body, List[Ticket]
    ticket_index,       \* position of the `for ticket in ...` loop of the handler
    model_responses,    \* what model.generate_content did for each ticket so far
    rewritten_tickets,  \* rewrite_tickets: the list being built
    log,                \* the logger lines of the request
    http_response,      \* what the handler returned (or the HTTPException raised)
    request_tickets,    \* update_tickets: request.tickets
    updated_tickets,    \* update_tickets: keys updated
    failed_tickets,     \* update_tickets: {key, error} of the failed ones
    jira_requests,      \* the PUT requests handed to requests.put
    jira_responses,     \* what requests.put / raise_for_status did for each
    \* ---- the locals of _parse_ai_response while it runs
    response_text,
    sections,           \* the blocks of response_text not yet processed
    current_section,
    user_story,
    acceptance_criteria,
    technical_context,
    parsed_response,    \* <<>> while running, <<the returned dict>> afterwards
    layout,             \* how response_text was put together (an input, never written)
    \* ---- the fallback generator and the renumbering step applied to its output
    ticket_data,
    fallback_response,  \* <<>> before the call, <<the returned dict>> afterwards
    numbered_passes     \* the criteria after 1, 2, ... renumbering passes

vars == <<pc, tickets, ticket_index, model_responses, rewritten_tickets, log,
          http_response, request_tickets, updated_tickets, failed_tickets,
          jira_requests, jira_responses,
          response_text, sections, current_section, user_story,
          acceptance_criteria, technical_context, parsed_response, layout,
          ticket_data, fallback_response, numbered_passes>>

handlerVars == <<pc, tickets, ticket_index, model_responses, rewritten_tickets, log,
                 http_response, request_tickets, updated_tickets, failed_tickets,
                 jira_requests, jira_responses>>

parserVars == <<response_text, sections, current_section, user_story,
                acceptance_criteria, technical_context, parsed_response, layout>>

fallbackVars == <<ticket_data, fallback_response, numbered_passes>>

-----------------------------------------------------------------------------
(* Bounds of the model.                                                    *)

MaxBatch == 2       \* tickets in one rewrite or update request
MaxChunks == 4      \* pieces a free-form model reply is put together from
MaxCriteria == 2    \* numbered lines of a well-formed model reply
MaxWords == 2       \* pieces a ticket summary is put together from
MaxPasses == 2      \* renumbering passes applied to the fallback criteria

-----------------------------------------------------------------------------
(* Python's str and re primitives, on strings.                             *)

\* str.isspace() for the characters that occur in the model's texts
IsSpace(c) == c \in {" ", "\n", "\t", "\r"}

\* \d of the re module
IsDigit(c) == c \in {"0", "1", "2", "3", "4", "5", "6", "7", "8", "9"}

CharAt(s, i) == SubSeq(s, i, i)

\* s[i:] with a 1-based i
From(s, i) == SubSeq(s, i, Len(s))

StartsWithAt(s, p, i) == /\ i + Len(p) - 1 <= Len(s)
                         /\ SubSeq(s, i, i + Len(p) - 1) = p

\* str.find: the least position >= i at which p occurs in s, 0 when there is none
Find(s, p, i) ==
    LET hits == {j \in i..(Len(s) - Len(p) + 1) : StartsWithAt(s, p, j)}
    IN  IF hits = {} THEN 0 ELSE CHOOSE j \in hits : \A k \in hits : j <= k

\* `p in s`
Contains(s, p) == Find(s, p, 1) # 0

\* s.split(sep): left to right, non-overlapping, empty pieces kept
RECURSIVE Split(_, _)
Split(s, sep) ==
    LET j == Find(s, sep, 1)
    IN  IF j = 0 THEN <<s>>
        ELSE <<SubSeq(s, 1, j - 1)>> \o Split(From(s, j + Len(sep)), sep)

\* s.replace(old, ""): one left-to-right pass over non-overlapping occurrences
RECURSIVE Remove(_, _)
Remove(s, old) ==
    LET j == Find(s, old, 1)
    IN  IF j = 0 THEN s
        ELSE SubSeq(s, 1, j - 1) \o Remove(From(s, j + Len(old)), old)

\* s.lstrip(): from the first character that is not whitespace
LStrip(s) ==
    From(s, CHOOSE j \in 1..(Len(s) + 1) :
                /\ \A k \in 1..(j - 1) : IsSpace(CharAt(s, k))
                /\ j = Len(s) + 1 \/ ~IsSpace(CharAt(s, j)))

\* s.rstrip(): up to the last character that is not whitespace
RStrip(s) ==
    SubSeq(s, 1, CHOOSE j \in 0..Len(s) :
                     /\ \A k \in (j + 1)..Len(s) : IsSpace(CharAt(s, k))
                     /\ j = 0 \/ ~IsSpace(CharAt(s, j)))

\* s.strip()
Strip(s) == RStrip(LStrip(s))

\* the position after the longest run of digits that starts at i
SkipDigits(s, i) ==
    CHOOSE j \in i..(Len(s) + 1) :
        /\ \A k \in i..(j - 1) : IsDigit(CharAt(s, k))
        /\ j = Len(s) + 1 \/ ~IsDigit(CharAt(s, j))

\* re.match(r'^\d+\.', line)
MatchNumbered(line) ==
    LET j == SkipDigits(line, 1)
    IN  j > 1 /\ j <= Len(line) /\ CharAt(line, j) = "."

\* re.sub(r'^\d+\.\s*', '', criterion)
StripNumber(criterion) ==
    IF MatchNumbered(criterion)
    THEN LStrip(From(criterion, SkipDigits(criterion, 1) + 1))
    ELSE criterion

\* str(i) of a non-negative integer
RECURSIVE ToStr(_)
ToStr(i) ==
    LET d == CharAt("0123456789", (i % 10) + 1)
    IN  IF i < 10 THEN d ELSE ToStr(i \div 10) \o d

\* str.lower() on the ASCII letters
LowerChar(c) ==
    LET j == Find("ABCDEFGHIJKLMNOPQRSTUVWXYZ", c, 1)
    IN  IF j = 0 THEN c ELSE CharAt("abcdefghijklmnopqrstuvwxyz", j)

\* character by character, the string halved at each step
RECURSIVE Lower(_)
Lower(s) ==
    IF s = "" THEN ""
    ELSE IF Len(s) = 1 THEN LowerChar(s)
    ELSE Lower(SubSeq(s, 1, Len(s) \div 2)) \o Lower(From(s, Len(s) \div 2 + 1))

\* "sep".join(pieces)
RECURSIVE Join(_, _)
Join(pieces, sep) ==
    IF pieces = <<>> THEN ""
    ELSE IF Len(pieces) = 1 THEN pieces[1]
    ELSE pieces[1] \o sep \o Join(Tail(pieces), sep)

-----------------------------------------------------------------------------
(* _parse_ai_response (app.py 113-170).                                     *)

USER_STORY_MARKER == "USER STORY:"
ACCEPTANCE_CRITERIA_MARKER == "ACCEPTANCE CRITERIA:"
TECHNICAL_CONTEXT_MARKER == "TECHNICAL CONTEXT:"

DefaultUserStory == "As a user, I want this issue resolved so that I can work efficiently."
DefaultCriterion == "The functionality should work as expected."
DefaultTechnicalContext ==
    "This ticket addresses a technical issue that impacts user experience."

\* current_section = None
NoSection == "None"

StripAll(lines) == [i \in DOMAIN lines |-> Strip(lines[i])]

\* for line in text.split('\n'): line = line.strip(); keep it if it matches ^\d+\.
NumberedLines(text) == SelectSeq(StripAll(Split(text, "\n")), MatchNumbered)

\* the locals of the parser before the loop
ParserStart ==
    [current_section |-> NoSection, user_story |-> "",
     acceptance_criteria |-> <<>>, technical_context |-> ""]

\* faulty variant: a continuation block is appended without the joining space
ProcessSectionWithoutSpace(p, raw) ==
    LET section == Strip(raw)
    IN  IF section = "" THEN p
        ELSE IF Contains(section, USER_STORY_MARKER)
        THEN [p EXCEPT !.current_section = "user_story",
                       !.user_story = Strip(Remove(section, USER_STORY_MARKER))]
        ELSE IF Contains(section, ACCEPTANCE_CRITERIA_MARKER)
        THEN [p EXCEPT !.current_section = "acceptance_criteria",
                       !.acceptance_criteria =
                           @ \o NumberedLines(Strip(Remove(section, ACCEPTANCE_CRITERIA_MARKER)))]
        ELSE IF Contains(section, TECHNICAL_CONTEXT_MARKER)
        THEN [p EXCEPT !.current_section = "technical_context",
                       !.technical_context = Strip(Remove(section, TECHNICAL_CONTEXT_MARKER))]
        ELSE IF p.current_section = "user_story"
        THEN [p EXCEPT !.user_story = @ \o section]
        ELSE IF p.current_section = "acceptance_criteria"
        THEN [p EXCEPT !.acceptance_criteria = @ \o NumberedLines(section)]
        ELSE IF p.current_section = "technical_context"
        THEN [p EXCEPT !.technical_context = @ \o section]
        ELSE p

\* one iteration of `for section in sections` on the locals p
ProcessSection(p, raw) ==
    LET section == Strip(raw)
    IN  IF section = "" THEN p
        ELSE IF Contains(section, USER_STORY_MARKER)
        THEN [p EXCEPT !.current_section = "user_story",
                       !.user_story = Strip(Remove(section, USER_STORY_MARKER))]
        ELSE IF Contains(section, ACCEPTANCE_CRITERIA_MARKER)
        THEN [p EXCEPT !.current_section = "acceptance_criteria",
                       !.acceptance_criteria =
                           @ \o NumberedLines(Strip(Remove(section, ACCEPTANCE_CRITERIA_MARKER)))]
        ELSE IF Contains(section, TECHNICAL_CONTEXT_MARKER)
        THEN [p EXCEPT !.current_section = "technical_context",
                       !.technical_context = Strip(Remove(section, TECHNICAL_CONTEXT_MARKER))]
        ELSE IF p.current_section = "user_story"
        THEN [p EXCEPT !.user_story = @ \o " " \o section]
        ELSE IF p.current_section = "acceptance_criteria"
        THEN [p EXCEPT !.acceptance_criteria = @ \o NumberedLines(section)]
        ELSE IF p.current_section = "technical_context"
        THEN [p EXCEPT !.technical_context = @ \o " " \o section]
        ELSE p

RECURSIVE ProcessSections(_, _)
ProcessSections(p, secs) ==
    IF secs = <<>> THEN p
    ELSE ProcessSections(ProcessSection(p, Head(secs)), Tail(secs))

IsNonEmpty(s) == s # ""

\* faulty variant: the number and period of a captured line are kept
FormatCriteriaKeepingNumbers(captured) ==
    LET criteria == IF captured = <<>> THEN <<"1. " \o DefaultCriterion>> ELSE captured
    IN  SelectSeq(criteria, IsNonEmpty)

\* lines 154-164: the default when nothing was captured, then the prefix of every
\* criterion removed and the criteria left empty by that dropped
FormatCriteria(captured) ==
    LET criteria == IF captured = <<>> THEN <<"1. " \o DefaultCriterion>> ELSE captured
    IN  SelectSeq([i \in DOMAIN criteria |-> StripNumber(criteria[i])], IsNonEmpty)

\* faulty variant: the user story and the technical context get no default
ParserResultWithoutDefaults(p) ==
    [user_story |-> p.user_story,
     acceptance_criteria |->
         IF FormatCriteria(p.acceptance_criteria) # <<>>
         THEN FormatCriteria(p.acceptance_criteria)
         ELSE <<DefaultCriterion>>,
     technical_context |-> p.technical_context]

\* lines 166-170: the returned dict
ParserResult(p) ==
    [user_story |-> IF p.user_story # "" THEN p.user_story ELSE DefaultUserStory,
     acceptance_criteria |->
         IF FormatCriteria(p.acceptance_criteria) # <<>>
         THEN FormatCriteria(p.acceptance_criteria)
         ELSE <<DefaultCriterion>>,
     technical_context |->
         IF p.technical_context # "" THEN p.technical_context ELSE DefaultTechnicalContext]

_parse_ai_response(text) ==
    ParserResult(ProcessSections(ParserStart, Split(text, "\n\n")))

-----------------------------------------------------------------------------
(* The renumbering step of rewrite_tickets (app.py 300-305 and 335-340).   *)

\* faulty variant: a criterion that already carries a number keeps it
NumberedCriteriaKeepingNumbers(criteria) ==
    [i \in DOMAIN criteria |->
        IF MatchNumbered(criteria[i]) THEN criteria[i]
        ELSE ToStr(i) \o ". " \o criteria[i]]

\* faulty variant: the existing number is not removed before the new one is put in front
NumberedCriteriaWithoutStripping(criteria) ==
    [i \in DOMAIN criteria |-> ToStr(i) \o ". " \o criteria[i]]

NumberedCriteria(criteria) ==
    [i \in DOMAIN criteria |-> ToStr(i) \o ". " \o StripNumber(criteria[i])]

-----------------------------------------------------------------------------
(* _generate_better_fallback_response (app.py 172-202).                    *)

performance_keywords == {"slow", "lag", "performance", "speed", "loading", "timeout"}

PerformanceCriteria ==
    <<"Page should load in under 2 seconds on standard connection speeds",
      "UI interactions (clicks, scrolls, inputs) should respond within 100ms",
      "All animations should run at 60fps without visual stuttering",
      "Performance should be consistent across supported browsers and devices">>

GenericCriteria ==
    <<"The functionality should work as expected in all supported browsers",
      "The implementation should meet all business requirements",
      "The solution should be thoroughly tested with automated tests",
      "The solution should maintain or improve current performance metrics">>

GenericTechnicalContext ==
    "This ticket addresses a technical issue that impacts user experience and business goals. Proper implementation will ensure system reliability and user satisfaction."

\* faulty variant: the description is not searched
is_performance_issue_in_summary(summary, description) ==
    \E keyword \in performance_keywords : Contains(summary, keyword)

\* line 179: any(keyword in summary or keyword in description for keyword in ...)
is_performance_issue(summary, description) ==
    \E keyword \in performance_keywords :
        Contains(summary, keyword) \/ Contains(description, keyword)

_generate_better_fallback_response(td) ==
    LET summary == Lower(td.summary)
        description == Lower(td.description)
    IN  IF is_performance_issue(summary, description)
        THEN [user_story |->
                  "As a user, I want the " \o summary
                  \o " to respond quickly so that I can complete my tasks efficiently without frustration.",
              acceptance_criteria |-> PerformanceCriteria,
              technical_context |->
                  "The " \o summary
                  \o " is experiencing performance issues that negatively impact user experience. This could be due to inefficient code, excessive network requests, unoptimized assets, or server-side bottlenecks. Fixing this will improve user satisfaction and potentially increase conversion rates."]
        ELSE [user_story |->
                  "As a user, I want to " \o summary
                  \o " so that I can achieve my goals efficiently.",
              acceptance_criteria |-> GenericCriteria,
              technical_context |-> GenericTechnicalContext]

-----------------------------------------------------------------------------
(* rewrite_tickets (app.py 259-357).                                       *)

\* Optional[str]: <<>> is None, <<s>> is the string s
None == <<>>

\* ticket.description or ""
DescriptionOrEmpty(ticket) ==
    IF ticket.description = None \/ ticket.description[1] = ""
    THEN "" ELSE ticket.description[1]

\* the dict handed to the fallback generator (lines 280-283, 322-325)
FallbackInput(ticket) ==
    [summary |-> ticket.summary, description |-> DescriptionOrEmpty(ticket)]

\* faulty variant: only the presence of the text is tested, not its emptiness
HasTextAttribute(r) == r.text # None

\* line 276 negated: hasattr(response, 'text') and response.text, for a call
\* that returned
HasText(r) == r.text # None /\ r.text[1] # ""

\* the branch of lines 271-289 and 319-325 that a model outcome selects, named by
\* the logger call made in it (lines 277, 286, 320)
Branch(r) == IF r.raised THEN "error" ELSE IF HasText(r) THEN "info" ELSE "warning"

ParsedFor(ticket, r) ==
    IF Branch(r) = "info"
    THEN _parse_ai_response(r.text[1])
    ELSE _generate_better_fallback_response(FallbackInput(ticket))

LogLine(ticket, r) == [level |-> Branch(r), key |-> ticket.key]

\* lines 291-317 (and their copy 327-349): the record appended for a ticket
RewrittenRecord(ticket, parsed) ==
    [key |-> ticket.key,
     original_title |-> ticket.summary,
     rewritten_title |-> parsed.user_story,
     rewritten_description |-> parsed.user_story \o "\n\n" \o parsed.technical_context,
     acceptance_criteria |-> NumberedCriteria(parsed.acceptance_criteria),
     technical_context |-> parsed.technical_context]

\* faulty variant: a ticket whose model call raised is skipped
AppendRewrittenUnlessRaised(list, ticket, r) ==
    IF r.raised THEN list
    ELSE Append(list, RewrittenRecord(ticket, ParsedFor(ticket, r)))

\* one iteration of the loop on rewritten_tickets: both the try body and the
\* except handler end in exactly one append
AppendRewritten(list, ticket, r) ==
    Append(list, RewrittenRecord(ticket, ParsedFor(ticket, r)))

NoResponse == [status |-> 0]

\* lines 351-357
RewriteResult(list) ==
    IF list = <<>>
    THEN [status |-> 500, detail |-> "Failed to generate any user stories"]
    ELSE [status |-> 200, body |-> list]

-----------------------------------------------------------------------------
(* update_tickets (app.py 359-441).                                        *)

Paragraph(text) ==
    [type |-> "paragraph", content |-> <<[type |-> "text", text |-> text]>>]

IsNotBlank(para) == Strip(para) # ""

\* faulty variant: blank paragraphs are not skipped
DescriptionParagraphsKeepingBlank(rewritten_description) ==
    LET paras == Split(rewritten_description, "\n\n")
    IN  [i \in DOMAIN paras |-> Paragraph(Strip(paras[i]))]

\* lines 379-388
DescriptionParagraphs(rewritten_description) ==
    LET kept == SelectSeq(Split(rewritten_description, "\n\n"), IsNotBlank)
    IN  [i \in DOMAIN kept |-> Paragraph(Strip(kept[i]))]

\* lines 391-398
CriteriaHeading ==
    [type |-> "heading", attrs |-> [level |-> 2],
     content |-> <<[type |-> "text", text |-> "Acceptance Criteria"]>>]

\* lines 401-417
CriteriaList(criteria) ==
    [type |-> "bulletList",
     content |-> [i \in DOMAIN criteria |->
                     [type |-> "listItem", content |-> <<Paragraph(criteria[i])>>]]]

\* lines 376-417: adf_content of a ticket
AdfContent(ticket) ==
    DescriptionParagraphs(ticket.rewritten_description)
    \o <<CriteriaHeading>> \o <<CriteriaList(ticket.acceptance_criteria)>>

\* lines 373, 419-430: what is handed to requests.put
JiraRequest(ticket) ==
    [key |-> ticket.key,
     summary |-> ticket.rewritten_title,
     description |-> [type |-> "doc", version |-> 1, content |-> AdfContent(ticket)]]

\* lines 432 and 433-435: where the outcome of the PUT puts the ticket
UpdatedAfter(list, ticket, r) == IF r.ok THEN Append(list, ticket.key) ELSE list

FailedAfter(list, ticket, r) ==
    IF r.ok THEN list ELSE Append(list, [key |-> ticket.key, error |-> r.error])

\* faulty variant: success means that no ticket failed
UpdateResultNoFailure(updated, failed) ==
    [success |-> Len(failed) = 0, updated_tickets |-> updated, failed_tickets |-> failed]

\* lines 437-441
UpdateResult(updated, failed) ==
    [success |-> Len(updated) > 0, updated_tickets |-> updated, failed_tickets |-> failed]

-----------------------------------------------------------------------------
(* The inputs of the model.                                                *)

RECURSIVE SeqsOfLen(_, _)
SeqsOfLen(S, n) ==
    IF n = 0 THEN {<<>>} ELSE {<<x>> \o t : x \in S, t \in SeqsOfLen(S, n - 1)}

SeqsUpTo(S, n) == UNION {SeqsOfLen(S, k) : k \in 0..n}

RECURSIVE TextsOfLen(_, _)
TextsOfLen(S, n) ==
    IF n = 0 THEN {""} ELSE {x \o t : x \in S, t \in TextsOfLen(S, n - 1)}

TextsUpTo(S, n) == UNION {TextsOfLen(S, k) : k \in 0..n}

Tickets ==
    {[key |-> "SHOP-1", summary |-> "Checkout page is very slow", description |-> None],
     [key |-> "SHOP-2", summary |-> "Add dark mode",
      description |-> <<"Users ask for a dark theme.">>]}

WellFormedText ==
    "USER STORY:\nAs a shopper, I want a fast checkout so that I can pay.\n\nACCEPTANCE CRITERIA:\n1. Foo\n2. Bar\n3. Baz\n\nTECHNICAL CONTEXT:\nSlow database queries."

ModelTexts ==
    {WellFormedText,
     "USER STORY: As a user, I want dark mode.\n\nTECHNICAL CONTEXT: Theming.",
     "I cannot help with that.",
     "ACCEPTANCE CRITERIA:\n7. 2. Foo\n\n9.Bar\nnot numbered\n10.   Baz\n11.",
     "User Story: lower-cased header\n\nACCEPTANCE CRITERIA:\n1.\n\nTECHNICAL CONTEXT:",
     "Here it is\nUSER STORY:\nAs a user\n\nand more\n\nACCEPTANCE CRITERIA: 1. inline"}

\* what model.generate_content(prompt) can do: raise, return a response without
\* text, or return a response with an empty or a non-empty text
ModelOutcomes ==
    {[raised |-> TRUE, text |-> None], [raised |-> FALSE, text |-> None]}
    \cup {[raised |-> FALSE, text |-> <<t>>] : t \in {""} \cup ModelTexts}

\* what requests.put followed by raise_for_status can do
JiraOutcomes ==
    {[ok |-> TRUE, error |-> ""],
     [ok |-> FALSE, error |-> "404 Client Error: Not Found"],
     [ok |-> FALSE, error |-> "Connection refused"]}

\* RewrittenTickets a client can send to update_tickets: two that rewrite_tickets
\* returned and two edited by the client
UpdateInputs ==
    {RewrittenRecord([key |-> "SHOP-1", summary |-> "Checkout page is very slow",
                      description |-> None],
                     _parse_ai_response(WellFormedText)),
     RewrittenRecord([key |-> "SHOP-2", summary |-> "Add dark mode", description |-> None],
                     _generate_better_fallback_response(
                         [summary |-> "Add dark mode", description |-> ""])),
     [key |-> "SHOP-3", original_title |-> "Fix login", rewritten_title |-> "Login works",
      rewritten_description |-> "Intro\n\n  \n\n\nBody text\nsecond line\n\n",
      acceptance_criteria |-> <<"do x">>, technical_context |-> "Body text"],
     [key |-> "SHOP-4", original_title |-> "", rewritten_title |-> "",
      rewritten_description |-> "", acceptance_criteria |-> <<>>, technical_context |-> ""]}

\* pieces of a free-form model reply
Chunks ==
    {"USER STORY:", "ACCEPTANCE CRITERIA:", "TECHNICAL CONTEXT:", "User Story:",
     "\n\n", "\n", "1. Foo\nnote", "2."}

FreeLayout == [kind |-> "free"]

CriterionTexts ==
    {"Foo", "Bar baz", "3. Qux", "", " padded ", "see USER STORY: 7",
     "see ACCEPTANCE CRITERIA: 2"}

\* a reply in the format the prompt asks for: three blocks separated by blank lines
Layouts ==
    [kind : {"blocks"},
     before : {"", "Sure! "},
     story : {"\nAs a user, I want X.", " As a user\nI want X", ""},
     criteria : SeqsUpTo(CriterionTexts, MaxCriteria) \ {<<>>},
     context : {"\nSlow queries.", " see ACCEPTANCE CRITERIA: above", ""}]

UserStoryBlock(l) == l.before \o USER_STORY_MARKER \o l.story

CriteriaBlock(l) ==
    ACCEPTANCE_CRITERIA_MARKER \o "\n"
    \o Join([i \in DOMAIN l.criteria |-> ToStr(i) \o ". " \o l.criteria[i]], "\n")

TechnicalBlock(l) == TECHNICAL_CONTEXT_MARKER \o l.context

LayoutText(l) ==
    UserStoryBlock(l) \o "\n\n" \o CriteriaBlock(l) \o "\n\n" \o TechnicalBlock(l)

SummaryWords ==
    {"Add dark mode", "Checkout page is very slow", "SLOW", "s", "low", "Flag",
     "Time", "out", "Speed", "LOADING", "Performance", " "}

Descriptions == {"", "The app lags", "Plain text", "TIMEOUT after 30s"}

-----------------------------------------------------------------------------
(* The handlers as a state machine: one request at a time, one action per  *)
(* loop iteration and one per return.                                      *)

HandlerIdle ==
    /\ pc = "idle"
    /\ tickets = <<>>
    /\ ticket_index = 1
    /\ model_responses = <<>>
    /\ rewritten_tickets = <<>>
    /\ log = <<>>
    /\ http_response = NoResponse
    /\ request_tickets = <<>>
    /\ updated_tickets = <<>>
    /\ failed_tickets = <<>>
    /\ jira_requests = <<>>
    /\ jira_responses = <<>>

ParserIdle ==
    /\ response_text = ""
    /\ sections = <<>>
    /\ current_section = NoSection
    /\ user_story = ""
    /\ acceptance_criteria = <<>>
    /\ technical_context = ""
    /\ parsed_response = <<>>
    /\ layout = FreeLayout

FallbackIdle ==
    /\ ticket_data = [summary |-> "", description |-> ""]
    /\ fallback_response = <<>>
    /\ numbered_passes = <<>>

Init == HandlerIdle /\ ParserIdle /\ FallbackIdle

\* POST /rewrite-tickets arrives with its body
RewriteRequest ==
    /\ pc = "idle"
    /\ \E batch \in SeqsUpTo(Tickets, MaxBatch) : tickets' = batch
    /\ pc' = "rewriting"
    /\ UNCHANGED <<ticket_index, model_responses, rewritten_tickets, log, http_response,
                   request_tickets, updated_tickets, failed_tickets, jira_requests,
                   jira_responses, parserVars, fallbackVars>>

\* one iteration of `for ticket in tickets` (lines 264-349)
RewriteTicket ==
    /\ pc = "rewriting"
    /\ ticket_index <= Len(tickets)
    /\ \E r \in ModelOutcomes :
          /\ model_responses' = Append(model_responses, r)
          /\ log' = Append(log, LogLine(tickets[ticket_index], r))
          /\ rewritten_tickets' =
                 AppendRewritten(rewritten_tickets, tickets[ticket_index], r)
    /\ ticket_index' = ticket_index + 1
    /\ UNCHANGED <<pc, tickets, http_response, request_tickets, updated_tickets,
                   failed_tickets, jira_requests, jira_responses, parserVars, fallbackVars>>

\* lines 351-357: the HTTPException or the returned list
RewriteReturn ==
    /\ pc = "rewriting"
    /\ ticket_index > Len(tickets)
    /\ http_response' = RewriteResult(rewritten_tickets)
    /\ pc' = "responded"
    /\ UNCHANGED <<tickets, ticket_index, model_responses, rewritten_tickets, log,
                   request_tickets, updated_tickets, failed_tickets, jira_requests,
                   jira_responses, parserVars, fallbackVars>>

\* PUT /update-tickets arrives with its body
UpdateRequest ==
    /\ pc = "idle"
    /\ \E batch \in SeqsUpTo(UpdateInputs, MaxBatch) : request_tickets' = batch
    /\ pc' = "updating"
    /\ UNCHANGED <<tickets, ticket_index, model_responses, rewritten_tickets, log,
                   http_response, updated_tickets, failed_tickets, jira_requests,
                   jira_responses, parserVars, fallbackVars>>

\* one iteration of `for ticket in request.tickets` (lines 365-435)
UpdateTicket ==
    /\ pc = "updating"
    /\ ticket_index <= Len(request_tickets)
    /\ \E r \in JiraOutcomes :
          /\ jira_responses' = Append(jira_responses, r)
          /\ jira_requests' = Append(jira_requests, JiraRequest(request_tickets[ticket_index]))
          /\ updated_tickets' = UpdatedAfter(updated_tickets, request_tickets[ticket_index], r)
          /\ failed_tickets' = FailedAfter(failed_tickets, request_tickets[ticket_index], r)
          /\ log' = IF r.ok THEN log
                    ELSE Append(log, [level |-> "error",
                                      key |-> request_tickets[ticket_index].key])
    /\ ticket_index' = ticket_index + 1
    /\ UNCHANGED <<pc, tickets, model_responses, rewritten_tickets, http_response,
                   request_tickets, parserVars, fallbackVars>>

\* lines 437-441
UpdateReturn ==
    /\ pc = "updating"
    /\ ticket_index > Len(request_tickets)
    /\ http_response' = UpdateResult(updated_tickets, failed_tickets)
    /\ pc' = "responded"
    /\ UNCHANGED <<tickets, ticket_index, model_responses, rewritten_tickets, log,
                   request_tickets, updated_tickets, failed_tickets, jira_requests,
                   jira_responses, parserVars, fallbackVars>>

\* the response is sent and the locals of the request are gone: the service keeps
\* nothing between requests
RequestDone ==
    /\ pc = "responded"
    /\ pc' = "idle"
    /\ tickets' = <<>>
    /\ ticket_index' = 1
    /\ model_responses' = <<>>
    /\ rewritten_tickets' = <<>>
    /\ log' = <<>>
    /\ http_response' = NoResponse
    /\ request_tickets' = <<>>
    /\ updated_tickets' = <<>>
    /\ failed_tickets' = <<>>
    /\ jira_requests' = <<>>
    /\ jira_responses' = <<>>
    /\ UNCHANGED <<parserVars, fallbackVars>>

Next ==
    \/ RewriteRequest
    \/ RewriteTicket
    \/ RewriteReturn
    \/ UpdateRequest
    \/ UpdateTicket
    \/ UpdateReturn
    \/ RequestDone

Spec == Init /\ [][Next]_vars

-----------------------------------------------------------------------------
(* _parse_ai_response step by step: the loop over the blocks, then the      *)
(* return.                                                                 *)

Locals ==
    [current_section |-> current_section, user_story |-> user_story,
     acceptance_criteria |-> acceptance_criteria, technical_context |-> technical_context]

\* lines 115-123: the call, up to the loop
ParserCalled(text, how) ==
    /\ response_text = text
    /\ layout = how
    /\ sections = Split(text, "\n\n")
    /\ current_section = ParserStart.current_section
    /\ user_story = ParserStart.user_story
    /\ acceptance_criteria = ParserStart.acceptance_criteria
    /\ technical_context = ParserStart.technical_context
    /\ parsed_response = <<>>

\* the parser called on a free-form reply
ParserInit ==
    /\ HandlerIdle
    /\ FallbackIdle
    /\ \E text \in TextsUpTo(Chunks, MaxChunks) : ParserCalled(text, FreeLayout)

\* the parser called on a reply in the three-block format
FormatInit ==
    /\ HandlerIdle
    /\ FallbackIdle
    /\ \E l \in Layouts : ParserCalled(LayoutText(l), l)

\* one iteration of `for section in sections` (lines 124-152)
ParseSection ==
    /\ parsed_response = <<>>
    /\ sections # <<>>
    /\ LET p == ProcessSection(Locals, Head(sections))
       IN  /\ current_section' = p.current_section
           /\ user_story' = p.user_story
           /\ acceptance_criteria' = p.acceptance_criteria
           /\ technical_context' = p.technical_context
    /\ sections' = Tail(sections)
    /\ UNCHANGED <<response_text, parsed_response, layout, handlerVars, fallbackVars>>

\* lines 154-170
ParseReturn ==
    /\ parsed_response = <<>>
    /\ sections = <<>>
    /\ parsed_response' = <<ParserResult(Locals)>>
    /\ UNCHANGED <<response_text, sections, current_section, user_story,
                   acceptance_criteria, technical_context, layout, handlerVars,
                   fallbackVars>>

ParserNext ==
    \/ ParseSection
    \/ ParseReturn

ParserSpec == ParserInit /\ [][ParserNext]_vars

FormatSpec == FormatInit /\ [][ParserNext]_vars

-----------------------------------------------------------------------------
(* The fallback generator called on a ticket, and the renumbering step of  *)
(* rewrite_tickets applied to what it returns, once and again.             *)

FallbackInit ==
    /\ HandlerIdle
    /\ ParserIdle
    /\ ticket_data \in [summary : TextsUpTo(SummaryWords, MaxWords),
                         description : Descriptions]
    /\ fallback_response = <<>>
    /\ numbered_passes = <<>>

GenerateFallback ==
    /\ fallback_response = <<>>
    /\ fallback_response' = <<_generate_better_fallback_response(ticket_data)>>
    /\ UNCHANGED <<ticket_data, numbered_passes, handlerVars, parserVars>>

Renumber ==
    /\ fallback_response # <<>>
    /\ Len(numbered_passes) < MaxPasses
    /\ numbered_passes' =
           Append(numbered_passes,
                  NumberedCriteria(IF numbered_passes = <<>>
                                   THEN fallback_response[1].acceptance_criteria
                                   ELSE numbered_passes[Len(numbered_passes)]))
    /\ UNCHANGED <<ticket_data, fallback_response, handlerVars, parserVars>>

FallbackNext ==
    \/ GenerateFallback
    \/ Renumber

FallbackSpec == FallbackInit /\ [][FallbackNext]_vars

-----------------------------------------------------------------------------
(* Properties.                                                             *)

\* p occurs in s, stated on positions
OccursIn(s, p) == \E i \in 1..Len(s) : StartsWithAt(s, p, i)

\* line starts with one or more digits and a period
HasNumberPrefix(line) ==
    \E j \in 2..Len(line) :
        /\ CharAt(line, j) = "."
        /\ \A k \in 1..(j - 1) : IsDigit(CharAt(line, k))

\* the model call for ticket n failed: it raised, or returned no text or empty text
ModelFailed(n) ==
    \/ model_responses[n].raised
    \/ model_responses[n].text = None
    \/ model_responses[n].text[1] = ""

\* C1: every record rewrite_tickets has built, whatever the model call did, has
\* at least one acceptance criterion, and the criterion at position i starts
\* with "<i>. ".
C1_CriteriaNumberedFromOne ==
    \A n \in DOMAIN rewritten_tickets :
        LET criteria == rewritten_tickets[n].acceptance_criteria
        IN  /\ Len(criteria) >= 1
            /\ \A i \in DOMAIN criteria : StartsWithAt(criteria[i], ToStr(i) \o ". ", 1)

\* a finished batch with one ticket on the fallback path and one whose reply had
\* numbered lines carrying other numbers
C1_Witness ==
    /\ pc = "responded"
    /\ Len(rewritten_tickets) = 2
    /\ model_responses[1].raised
    /\ ~ModelFailed(2)
    /\ OccursIn(model_responses[2].text[1], "7. 2. Foo")
    /\ Len(rewritten_tickets[2].acceptance_criteria) = 3

\* C2: while and after a batch of N >= 1 tickets is rewritten, one record exists
\* for each ticket processed, the n-th record carrying the key and the summary
\* of the n-th ticket; the response holds exactly N records.
C2_OneRecordPerTicketInOrder ==
    /\ Len(rewritten_tickets) = Len(model_responses)
    /\ pc = "rewriting" => Len(rewritten_tickets) = ticket_index - 1
    /\ \A n \in DOMAIN rewritten_tickets :
           /\ n <= Len(tickets)
           /\ rewritten_tickets[n].key = tickets[n].key
           /\ rewritten_tickets[n].original_title = tickets[n].summary
    /\ (pc = "responded" /\ Len(tickets) >= 1) =>
           /\ http_response.status = 200
           /\ Len(http_response.body) = Len(tickets)
           /\ http_response.body = rewritten_tickets

\* a finished batch of two different tickets, the first of which failed
C2_Witness ==
    /\ pc = "responded"
    /\ Len(tickets) = 2
    /\ tickets[1].key # tickets[2].key
    /\ model_responses[1].raised
    /\ ~ModelFailed(2)

\* C3: the record of a ticket is the fallback generator's exactly when the model
\* call failed, it is the parser's whenever the model returned non-empty text,
\* and a batch with tickets never ends in an error.
C3_FallbackExactlyOnFailure ==
    /\ \A n \in DOMAIN rewritten_tickets :
           LET fallback == RewrittenRecord(tickets[n],
                               _generate_better_fallback_response(FallbackInput(tickets[n])))
           IN  /\ ModelFailed(n) <=> rewritten_tickets[n] = fallback
               /\ ~ModelFailed(n) =>
                      rewritten_tickets[n] =
                          RewrittenRecord(tickets[n],
                                          _parse_ai_response(model_responses[n].text[1]))
    /\ (pc = "responded" /\ Len(tickets) >= 1) => http_response.status = 200

\* a finished batch with an empty reply for the first ticket and a well-formed
\* reply for the second
C3_Witness ==
    /\ pc = "responded"
    /\ Len(rewritten_tickets) = 2
    /\ model_responses[1] = [raised |-> FALSE, text |-> <<"">>]
    /\ model_responses[2] = [raised |-> FALSE, text |-> <<WellFormedText>>]

\* C4: what _parse_ai_response returns has a non-empty user story, at least one
\* criterion, no empty criterion and a non-empty technical context; when the text
\* has no ACCEPTANCE CRITERIA: marker, or no numbered line was captured, the
\* criteria are the single default and their numbered form is
\* "1. The functionality should work as expected.".
C4_ParserAlwaysPopulated ==
    parsed_response # <<>> =>
        LET result == parsed_response[1]
        IN  /\ result.user_story # ""
            /\ result.technical_context # ""
            /\ Len(result.acceptance_criteria) >= 1
            /\ \A i \in DOMAIN result.acceptance_criteria : result.acceptance_criteria[i] # ""
            /\ (~OccursIn(response_text, ACCEPTANCE_CRITERIA_MARKER)
                \/ acceptance_criteria = <<>>) =>
                   /\ result.acceptance_criteria =
                          <<"The functionality should work as expected.">>
                   /\ NumberedCriteria(result.acceptance_criteria) =
                          <<"1. The functionality should work as expected.">>

\* the parser has returned for a text with a user story and no criteria section
C4_Witness ==
    /\ parsed_response # <<>>
    /\ ~OccursIn(response_text, ACCEPTANCE_CRITERIA_MARKER)
    /\ OccursIn(response_text, USER_STORY_MARKER)
    /\ user_story = ""
    /\ parsed_response[1].acceptance_criteria = <<DefaultCriterion>>

\* the three blocks of a reply in the prompt's format hold what the claim asks
\* for: no marker of an earlier branch in the second and third block, each marker
\* once, criteria that are single non-blank lines, a story and a context
FormatIsPlain(l) ==
    /\ ~OccursIn(l.before \o l.story, USER_STORY_MARKER)
    /\ ~OccursIn(CriteriaBlock(l), USER_STORY_MARKER)
    /\ ~OccursIn(TechnicalBlock(l), USER_STORY_MARKER)
    /\ ~OccursIn(TechnicalBlock(l), ACCEPTANCE_CRITERIA_MARKER)
    /\ ~OccursIn(l.context, TECHNICAL_CONTEXT_MARKER)
    /\ \A i \in DOMAIN l.criteria :
           /\ Strip(l.criteria[i]) # ""
           /\ ~OccursIn(l.criteria[i], "\n")
           /\ ~OccursIn(l.criteria[i], ACCEPTANCE_CRITERIA_MARKER)
    /\ Strip(l.before \o l.story) # ""
    /\ Strip(l.context) # ""
    /\ \A block \in {UserStoryBlock(l), CriteriaBlock(l), TechnicalBlock(l)} :
           ~OccursIn(block, "\n\n")

\* what the claim expects of a reply laid out as l, surrounding whitespace trimmed
FormatExpected(l) ==
    [user_story |-> Strip(l.before \o l.story),
     acceptance_criteria |-> [i \in DOMAIN l.criteria |-> Strip(l.criteria[i])],
     technical_context |-> Strip(l.context)]

\* C5 as stated: for every reply of three blocks (USER STORY:, then ACCEPTANCE
\* CRITERIA: with lines "1. c1" .. "k. ck", then TECHNICAL CONTEXT:) the parser
\* returns the first block without its marker, [c1, .., ck] and the third block
\* without its marker.
C5_AsStated ==
    (parsed_response # <<>> /\ layout.kind = "blocks") =>
        parsed_response[1] = FormatExpected(layout)

\* C5 amended: the same, for replies whose second block does not contain USER
\* STORY:, whose third block contains neither USER STORY: nor ACCEPTANCE
\* CRITERIA:, whose criteria are non-blank single lines without the ACCEPTANCE
\* CRITERIA: marker, and whose first and third block are not blank without
\* their marker; all values with surrounding whitespace trimmed.
C5_PlainFormatParsed ==
    (parsed_response # <<>> /\ layout.kind = "blocks" /\ FormatIsPlain(layout)) =>
        parsed_response[1] = FormatExpected(layout)

\* the parser has returned for a plain reply with text before the first marker,
\* two criteria, one of them starting with a number of its own
C5_Witness ==
    /\ parsed_response # <<>>
    /\ layout.kind = "blocks"
    /\ FormatIsPlain(layout)
    /\ layout.before # ""
    /\ layout.criteria = <<"3. Qux", " padded ">>
    /\ parsed_response[1].acceptance_criteria = <<"3. Qux", "padded">>

\* a performance keyword occurs in the lower-cased summary or description
MentionsPerformance(td) ==
    \E keyword \in {"slow", "lag", "performance", "speed", "loading", "timeout"} :
        OccursIn(Lower(td.summary), keyword) \/ OccursIn(Lower(td.description), keyword)

\* C6: the fallback generator returns the four performance criteria and a
\* technical context containing "performance issues" exactly when a keyword
\* occurs in the lower-cased summary or description, and the four generic
\* criteria with the generic technical context otherwise.
C6_PerformanceClassification ==
    fallback_response # <<>> =>
        LET result == fallback_response[1]
        IN  IF MentionsPerformance(ticket_data)
            THEN /\ result.acceptance_criteria = PerformanceCriteria
                 /\ Len(result.acceptance_criteria) = 4
                 /\ OccursIn(result.technical_context, "performance issues")
            ELSE /\ result.acceptance_criteria = GenericCriteria
                 /\ Len(result.acceptance_criteria) = 4
                 /\ result.acceptance_criteria[1] =
                        "The functionality should work as expected in all supported browsers"
                 /\ result.technical_context = GenericTechnicalContext
                 /\ ~OccursIn(result.technical_context, "performance issues")

\* the generator has returned for a ticket whose only keyword is in the
\* description, in capitals
C6_Witness ==
    /\ fallback_response # <<>>
    /\ ticket_data = [summary |-> "Add dark mode", description |-> "TIMEOUT after 30s"]
    /\ fallback_response[1].acceptance_criteria[1] =
           "Page should load in under 2 seconds on standard connection speeds"

\* the keys of the first n tickets of the update request whose PUT succeeded
RECURSIVE ExpectedUpdated(_)
ExpectedUpdated(n) ==
    IF n = 0 THEN <<>>
    ELSE IF jira_responses[n].ok
    THEN Append(ExpectedUpdated(n - 1), request_tickets[n].key)
    ELSE ExpectedUpdated(n - 1)

\* key and error of the first n tickets of the update request whose PUT failed
RECURSIVE ExpectedFailed(_)
ExpectedFailed(n) ==
    IF n = 0 THEN <<>>
    ELSE IF jira_responses[n].ok
    THEN ExpectedFailed(n - 1)
    ELSE Append(ExpectedFailed(n - 1),
                [key |-> request_tickets[n].key, error |-> jira_responses[n].error])

\* C7: every ticket of an update request is attempted; updated_tickets holds, in
\* input order, the keys of those whose update succeeded and failed_tickets, in
\* input order, key and error of those whose update raised; success is true
\* exactly when updated_tickets is not empty.
C7_UpdateOutcomesPartitioned ==
    /\ updated_tickets = ExpectedUpdated(Len(jira_responses))
    /\ failed_tickets = ExpectedFailed(Len(jira_responses))
    /\ Len(updated_tickets) + Len(failed_tickets) = Len(jira_requests)
    /\ pc = "updating" => Len(jira_requests) = ticket_index - 1
    /\ (pc = "responded" /\ Len(request_tickets) >= 1) =>
           /\ Len(jira_requests) = Len(request_tickets)
           /\ http_response.updated_tickets = updated_tickets
           /\ http_response.failed_tickets = failed_tickets
           /\ http_response.success = (updated_tickets # <<>>)

\* a finished update of two tickets: the first failed, the second succeeded
C7_Witness ==
    /\ pc = "responded"
    /\ Len(request_tickets) = 2
    /\ ~jira_responses[1].ok
    /\ jira_responses[2].ok
    /\ http_response.success
    /\ Len(http_response.failed_tickets) = 1

\* the paragraphs of a description that are not blank
NonBlankParagraphs(description) == SelectSeq(Split(description, "\n\n"), IsNotBlank)

\* C8: the document sent for a ticket is one paragraph block per non-blank
\* paragraph of rewritten_description, in order, then one "Acceptance Criteria"
\* heading, then one bulleted list whose items are the criteria unchanged, in
\* order.
C8_DocumentLayout ==
    \A n \in DOMAIN jira_requests :
        LET ticket == request_tickets[n]
            doc == jira_requests[n].description.content
            paras == NonBlankParagraphs(ticket.rewritten_description)
            m == Len(paras)
        IN  /\ jira_requests[n].key = ticket.key
            /\ Len(doc) = m + 2
            /\ \A i \in 1..m :
                   /\ doc[i].type = "paragraph"
                   /\ doc[i].content[1].text = Strip(paras[i])
            /\ doc[m + 1].type = "heading"
            /\ doc[m + 1].content[1].text = "Acceptance Criteria"
            /\ doc[m + 2].type = "bulletList"
            /\ Len(doc[m + 2].content) = Len(ticket.acceptance_criteria)
            /\ \A j \in DOMAIN ticket.acceptance_criteria :
                   /\ doc[m + 2].content[j].type = "listItem"
                   /\ doc[m + 2].content[j].content[1].content[1].text =
                          ticket.acceptance_criteria[j]

\* a document was sent for a ticket with 3 criteria and a 2-paragraph
\* description: 2 paragraphs, the heading, a list of 3 items
C8_Witness ==
    \E n \in DOMAIN jira_requests :
        LET doc == jira_requests[n].description.content
        IN  /\ Len(request_tickets[n].acceptance_criteria) = 3
            /\ Len(Split(request_tickets[n].rewritten_description, "\n\n")) = 2
            /\ Len(doc) = 4
            /\ doc[1].type = "paragraph"
            /\ doc[2].type = "paragraph"
            /\ doc[3].type = "heading"
            /\ doc[4].type = "bulletList"
            /\ Len(doc[4].content) = 3
            /\ doc[4].content[1].content[1].content[1].text = "1. Foo"

\* C9: renumbering the fallback generator's criteria a second (third, ...) time
\* gives the strings the first renumbering gave.
C9_RenumberingIdempotent ==
    \A i \in DOMAIN numbered_passes : numbered_passes[i] = numbered_passes[1]

\* the performance criteria have been renumbered twice
C9_Witness ==
    /\ Len(numbered_passes) >= 2
    /\ fallback_response[1].acceptance_criteria = PerformanceCriteria
    /\ numbered_passes[2][4] =
           "4. Performance should be consistent across supported browsers and devices"

\* the block the parser is about to process, stripped, is not empty and holds
\* none of the three markers
AtPlainBlock ==
    /\ parsed_response = <<>>
    /\ sections # <<>>
    /\ Strip(Head(sections)) # ""
    /\ ~OccursIn(Strip(Head(sections)), USER_STORY_MARKER)
    /\ ~OccursIn(Strip(Head(sections)), ACCEPTANCE_CRITERIA_MARKER)
    /\ ~OccursIn(Strip(Head(sections)), TECHNICAL_CONTEXT_MARKER)

\* the stripped lines of a block that start with a number and a period
NumberPrefixedLines(block) == SelectSeq(StripAll(Split(block, "\n")), HasNumberPrefix)

\* what processing a marker-free block does to the locals of the parser
PlainBlockHandled ==
    LET block == Strip(Head(sections))
    IN  /\ current_section' = current_section
        /\ user_story' =
               IF current_section = "user_story" THEN user_story \o " " \o block
               ELSE user_story
        /\ technical_context' =
               IF current_section = "technical_context"
               THEN technical_context \o " " \o block
               ELSE technical_context
        /\ acceptance_criteria' =
               IF current_section = "acceptance_criteria"
               THEN acceptance_criteria \o NumberPrefixedLines(block)
               ELSE acceptance_criteria

\* C10: a non-empty block without any of the three markers leaves the section
\* cursor as it is; it is appended after one space to user_story or
\* technical_context when that is the current section, its lines that start with
\* "<digits>." (and only those) are appended to the criteria when the current
\* section is acceptance_criteria, and it changes nothing before any marker.
C10_PlainBlockFollowsCursor ==
    [][(AtPlainBlock /\ sections' = Tail(sections)) => PlainBlockHandled]_vars

\* a block headed "User Story:" has been appended to the user story
C10_Witness ==
    /\ sections = <<>>
    /\ current_section = "user_story"
    /\ response_text = "USER STORY:2.\n\nUser Story:"
    /\ user_story = "2. User Story:"

====
